---- MODULE Spec2Model ----
(***************************************************************************)
(* A model of lumen.py: the AdBlocker request interceptor and the Browser  *)
(* window (tabs, titles, history, URL bar, bookmarks and the bookmark      *)
(* file shared by all windows of one run).                                 *)
(*                                                                         *)
(* A Python str is a sequence of one-character strings, so that `in`,      *)
(* startswith, strip and the JSON text of the bookmark file are computed   *)
(* character by character.                                                 *)
(*                                                                         *)
(* The Qt widgets and the web engine are the environment: the engine       *)
(* reports page URLs and titles through urlChanged and titleChanged of any *)
(* tab, the user selects, moves and closes tabs and types into the URL     *)
(* bar.  A tab is identified by its widget (an id), not by its position.   *)
(* An exception raised in a slot leaves the slot and the window lives on.  *)
(* Writing bookmarks.json always succeeds; the profile directory exists    *)
(* from the first window on (os.makedirs in __init__).                     *)
(***************************************************************************)
EXTENDS Integers, Sequences, FiniteSets, TLC

VARIABLES
    blocklist,   \* AdBlocker.blocklist
    info,        \* the QWebEngineUrlRequestInfo last handed to interceptRequest
    windows,     \* windows[w]: the fields of Browser window w (window 1 is main()'s)
    file,        \* bookmarks.json under the profile root
    last         \* the handler that ran last, and what it was called with

vars == <<blocklist, info, windows, file, last>>

browserVars == <<windows, file, last>>

----------------------------------------------------------------------------
(* Bounds of the model.                                                    *)

MaxUrlLen == 3      \* longest generated request URL
MaxPatLen == 2      \* longest generated blocklist pattern
MaxRules == 2       \* longest generated blocklist
MaxTabs == 3        \* tabs per window
MaxWindows == 2     \* windows of one run (the main one included)
MaxPad == 1         \* whitespace typed on each side of the URL bar text

----------------------------------------------------------------------------
(* Strings.                                                                *)

Range(s) == {s[i] : i \in 1..Len(s)}

RECURSIVE SeqsUpTo(_, _)
SeqsUpTo(S, n) ==
    IF n = 0 THEN {<<>>}
    ELSE LET shorter == SeqsUpTo(S, n - 1)
         IN  shorter \cup {Append(s, c) : s \in shorter, c \in S}

\* Python's `p in u` on two str
Contains(u, p) ==
    \E i \in 0..(Len(u) - Len(p)) : SubSeq(u, i + 1, i + Len(p)) = p

\* Python's u.startswith(p)
StartsWith(u, p) == Len(p) <= Len(u) /\ SubSeq(u, 1, Len(p)) = p

----------------------------------------------------------------------------
(* AdBlocker                                                               *)

DefaultBlocklist == <<
    <<"d", "o", "u", "b", "l", "e", "c", "l", "i", "c", "k", ".", "n", "e", "t">>,
    <<"g", "o", "o", "g", "l", "e", "s", "y", "n", "d", "i", "c", "a", "t", "i", "o", "n", ".", "c", "o", "m">>,
    <<"a", "d", "s", "e", "r", "v", "i", "c", "e", ".", "g", "o", "o", "g", "l", "e", ".">>,
    <<"a", "d", "s", ".", "y", "o", "u", "t", "u", "b", "e", ".", "c", "o", "m">>,
    <<"a", "d", "s", ".", "y", "a", "h", "o", "o", ".">>,
    <<"t", "a", "b", "o", "o", "l", "a", ".", "c", "o", "m">>,
    <<"o", "u", "t", "b", "r", "a", "i", "n", ".", "c", "o", "m">>,
    <<"f", "a", "c", "e", "b", "o", "o", "k", ".", "c", "o", "m", "/", "t", "r", "/">>,
    <<"p", "i", "x", "e", "l", ".">> >>

\* Request URLs against the constructor's blocklist
SampleRequests == {
    <<"h", "t", "t", "p", "s", ":", "/", "/", "a", "d", "s", ".", "d", "o", "u", "b", "l", "e", "c", "l", "i", "c", "k", ".", "n", "e", "t", "/", "x">>,
    <<"h", "t", "t", "p", "s", ":", "/", "/", "e", "x", "a", "m", "p", "l", "e", ".", "c", "o", "m", "/", "p", "i", "x", "e", "l", "a", "t", "e", "d", ".", "p", "n", "g">>,
    <<"h", "t", "t", "p", "s", ":", "/", "/", "e", "x", "a", "m", "p", "l", "e", ".", "c", "o", "m", "/", "P", "I", "X", "E", "L", ".", "g", "i", "f">>,
    <<"h", "t", "t", "p", "s", ":", "/", "/", "e", "x", "a", "m", "p", "l", "e", ".", "c", "o", "m", "/", "p", "i", "x", "e", "l", ".", "g", "i", "f">>,
    <<"h", "t", "t", "p", "s", ":", "/", "/", "e", "x", "a", "m", "p", "l", "e", ".", "c", "o", "m", "/">> }

\* Generated URLs, patterns and blocklists: "a" and "A" differ only in case
FilterChars == {"a", "A"}
GenRequests == SeqsUpTo(FilterChars, MaxUrlLen)
GenPatterns == SeqsUpTo(FilterChars, MaxPatLen)
GenBlocklists == SeqsUpTo(GenPatterns, MaxRules)

RequestUrls == GenRequests \cup SampleRequests
Blocklists == GenBlocklists \cup {DefaultBlocklist}

\* Variant: url.startswith(p) in place of `p in url`
ShouldBlock_Prefix(url, R) == \E k \in 1..Len(R) : StartsWith(url, R[k])

\* any(p in url for p in self.blocklist)
ShouldBlock(url, R) == \E k \in 1..Len(R) : Contains(url, R[k])

NoInfo == [requestUrl |-> <<>>, blocked |-> FALSE, calls |-> 0]

\* AdBlocker.interceptRequest: info.block() is called once, with the decision
interceptRequest(url) ==
    /\ info' = [requestUrl |-> url,
                blocked |-> ShouldBlock(url, blocklist),
                calls |-> 1]
    /\ UNCHANGED <<blocklist, browserVars>>

----------------------------------------------------------------------------
(* Python values held by Browser.bookmarks, and the text of bookmarks.json *)

PyList(xs) == [kind |-> "list", chars |-> <<>>, items |-> xs]
PyStr(s) == [kind |-> "str", chars |-> s, items |-> <<>>]
PyNum(digits) == [kind |-> "num", chars |-> digits, items |-> <<>>]
PyDict == [kind |-> "dict", chars |-> <<>>, items |-> <<>>]

Quote == "\""
Backslash == "\\"
Eacute == "U+00E9"          \* one non-ASCII character
BadByte == "0xFF"           \* a byte open()'s text decoding rejects
Digits == {"0", "1", "2", "3", "4", "5", "6", "7", "8", "9"}
JsonWhitespace == {" ", "\t", "\n", "\r"}

RECURSIVE Concat(_)
Concat(ss) == IF ss = <<>> THEN <<>> ELSE Head(ss) \o Concat(Tail(ss))

RECURSIVE Join(_, _)
Join(ss, sep) ==
    IF ss = <<>> THEN <<>>
    ELSE IF Len(ss) = 1 THEN ss[1]
    ELSE ss[1] \o sep \o Join(Tail(ss), sep)

\* json.dump with its defaults: ensure_ascii=True, separators (", ", ": ")
EncodeChar(c) ==
    IF c = Quote THEN <<Backslash, Quote>>
    ELSE IF c = Backslash THEN <<Backslash, Backslash>>
    ELSE IF c = Eacute THEN <<Backslash, "u", "0", "0", "e", "9">>
    ELSE <<c>>

EncodeStr(s) ==
    <<Quote>> \o Concat([i \in 1..Len(s) |-> EncodeChar(s[i])]) \o <<Quote>>

RECURSIVE JsonDumps(_)
JsonDumps(v) ==
    IF v.kind = "str" THEN EncodeStr(v.chars)
    ELSE IF v.kind = "num" THEN v.chars
    ELSE IF v.kind = "dict" THEN <<"{", "}">>
    ELSE <<"[">>
         \o Join([i \in 1..Len(v.items) |-> JsonDumps(v.items[i])], <<",", " ">>)
         \o <<"]">>

\* json.load: a parse result is [ok, val, next], next the position after val.
\* Modelled: strings, non-negative integers, arrays and the empty object;
\* the other literals do not occur in the file contents the model draws.
ParseFail == [ok |-> FALSE, val |-> PyDict, next |-> 0]

RECURSIVE SkipWs(_, _)
SkipWs(t, i) ==
    IF i <= Len(t) /\ t[i] \in JsonWhitespace THEN SkipWs(t, i + 1) ELSE i

RECURSIVE ScanString(_, _, _)
ScanString(t, j, acc) ==
    IF j > Len(t) THEN ParseFail
    ELSE IF t[j] = Quote THEN [ok |-> TRUE, val |-> PyStr(acc), next |-> j + 1]
    ELSE IF t[j] \in {"\t", "\n", "\r"} THEN ParseFail
    ELSE IF t[j] = Backslash THEN
        IF j + 1 > Len(t) THEN ParseFail
        ELSE IF t[j + 1] \in {Quote, Backslash, "/"}
            THEN ScanString(t, j + 2, Append(acc, t[j + 1]))
        ELSE IF /\ t[j + 1] = "u"
                /\ j + 5 <= Len(t)
                /\ SubSeq(t, j + 2, j + 5) \in {<<"0", "0", "e", "9">>,
                                                <<"0", "0", "E", "9">>}
            THEN ScanString(t, j + 6, Append(acc, Eacute))
        ELSE ParseFail
    ELSE ScanString(t, j + 1, Append(acc, t[j]))

RECURSIVE ScanDigits(_, _)
ScanDigits(t, j) ==
    IF j <= Len(t) /\ t[j] \in Digits THEN ScanDigits(t, j + 1) ELSE j

RECURSIVE ParseValue(_, _)
RECURSIVE ParseItems(_, _, _)
ParseValue(t, i) ==
    IF i > Len(t) THEN ParseFail
    ELSE IF t[i] = Quote THEN ScanString(t, i + 1, <<>>)
    ELSE IF t[i] \in Digits THEN
        LET j == IF t[i] = "0" THEN i + 1 ELSE ScanDigits(t, i)
        IN  [ok |-> TRUE, val |-> PyNum(SubSeq(t, i, j - 1)), next |-> j]
    ELSE IF t[i] = "{" THEN
        LET j == SkipWs(t, i + 1)
        IN  IF j <= Len(t) /\ t[j] = "}"
            THEN [ok |-> TRUE, val |-> PyDict, next |-> j + 1]
            ELSE ParseFail
    ELSE IF t[i] = "[" THEN
        LET j == SkipWs(t, i + 1)
        IN  IF j <= Len(t) /\ t[j] = "]"
            THEN [ok |-> TRUE, val |-> PyList(<<>>), next |-> j + 1]
            ELSE ParseItems(t, j, <<>>)
    ELSE ParseFail

ParseItems(t, i, acc) ==
    LET r == ParseValue(t, i)
        j == SkipWs(t, r.next)
    IN  IF ~r.ok \/ j > Len(t) THEN ParseFail
        ELSE IF t[j] = ","
            THEN ParseItems(t, SkipWs(t, j + 1), Append(acc, r.val))
        ELSE IF t[j] = "]"
            THEN [ok |-> TRUE, val |-> PyList(Append(acc, r.val)), next |-> j + 1]
        ELSE ParseFail

JsonLoads(t) ==
    LET r == ParseValue(t, SkipWs(t, 1))
    IN  IF r.ok /\ SkipWs(t, r.next) = Len(t) + 1 THEN r ELSE ParseFail

\* The bookmark file: absent, or a text
AbsentFile == [exists |-> FALSE, text |-> <<>>]
TextFile(t) == [exists |-> TRUE, text |-> t]

\* Browser.__init__, the try/except around json.load(open(bookmarks_path))
LoadBookmarks(f) ==
    IF ~f.exists \/ BadByte \in Range(f.text) THEN PyList(<<>>)
    ELSE LET r == JsonLoads(f.text)
         IN  IF r.ok THEN r.val ELSE PyList(<<>>)

\* json.dump(self.bookmarks, open(self.bookmarks_path, "w"))
DumpBookmarks(v) == TextFile(JsonDumps(v))

----------------------------------------------------------------------------
(* Browser                                                                 *)

Windows == 1..MaxWindows
TabIds == 1..MaxTabs

Home == <<"h", "t", "t", "p", "s", ":", "/", "/", "w", "w", "w", ".", "g", "o", "o", "g", "l", "e", ".", "c", "o", "m">>
Http == <<"h", "t", "t", "p", ":", "/", "/">>
Https == <<"h", "t", "t", "p", "s", ":", "/", "/">>
NewTabTitle == "New Tab"

\* What the engine reports: page URLs (QUrl.toString(), the empty string for
\* an invalid QUrl) and page titles
UrlQ == <<"a", Quote, Backslash, Eacute>>
PageUrls == {<<>>, Home, UrlQ}
PageTitles == {"T1", "T2"}

Min(a, b) == IF a <= b THEN a ELSE b

RemoveAt(s, i) == SubSeq(s, 1, i - 1) \o SubSeq(s, i + 1, Len(s))

MoveTo(s, from, to) ==
    LET rest == RemoveAt(s, from)
    IN  SubSeq(rest, 1, to - 1) \o <<s[from]>> \o SubSeq(rest, to, Len(rest))

\* QTabWidget.indexOf, counted from 1; 0 when the widget is no tab
IndexOf(ts, id) ==
    IF \E i \in 1..Len(ts) : ts[i].id = id
    THEN CHOOSE i \in 1..Len(ts) : ts[i].id = id
    ELSE 0

TabIdsOf(ts) == {ts[i].id : i \in 1..Len(ts)}

FreeTabId(ts) == CHOOSE id \in TabIds \ TabIdsOf(ts) :
                     \A other \in TabIds \ TabIdsOf(ts) : id <= other

ClosedWindow ==
    [open |-> FALSE, incognito |-> FALSE, tabs |-> <<>>, current |-> 0,
     view |-> 0, history |-> <<>>, bookmarks |-> PyList(<<>>), url_bar |-> <<>>]

\* Browser.new_tab on the fields of one window: addTab, setCurrentWidget
\* (whose currentChanged runs tab_changed) and self.view = view
AddTab(win, url) ==
    LET id == FreeTabId(win.tabs)
    IN  [win EXCEPT !.tabs = Append(@, [id |-> id, url |-> url, title |-> NewTabTitle]),
                    !.current = id,
                    !.view = id]

\* Browser.__init__: the profile directory exists from main()'s window on
Browser(inc, f) ==
    AddTab([open |-> TRUE, incognito |-> inc, tabs |-> <<>>, current |-> 0,
            view |-> 0, history |-> <<>>, bookmarks |-> LoadBookmarks(f),
            url_bar |-> <<>>],
           Home)

Ran(op, w, tab, result) == [op |-> op, w |-> w, tab |-> tab, result |-> result]

\* view.setUrl(QUrl(url)) on the tab self.view
SetUrl(win, url) ==
    [win EXCEPT !.tabs = [i \in 1..Len(@) |->
                             IF @[i].id = win.view THEN [@[i] EXCEPT !.url = url]
                             ELSE @[i]]]

ViewUrl(win) == win.tabs[IndexOf(win.tabs, win.view)].url

new_tab(w) ==
    /\ windows[w].open
    /\ Len(windows[w].tabs) < MaxTabs
    /\ windows' = [windows EXCEPT ![w] = AddTab(@, Home)]
    /\ last' = Ran("new_tab", w, windows'[w].view, "added")
    /\ UNCHANGED <<blocklist, info, file>>

\* QTabWidget.removeTab: the default SelectRightTab picks the next current
\* tab; currentChanged (so tab_changed) fires when the current index changes
\* Variant: no `if self.tabs.count() > 1`
CloseTabAt_NoGuard(win, index) ==
    LET rest == RemoveAt(win.tabs, index)
    IN  [win EXCEPT !.tabs = rest,
                    !.current = IF rest = <<>> THEN 0 ELSE rest[1].id,
                    !.view = IF rest = <<>> THEN 0 ELSE rest[1].id]

CloseTabAt(win, index) ==
    IF Len(win.tabs) > 1
    THEN LET n == Len(win.tabs)
             rest == RemoveAt(win.tabs, index)
             cur == IndexOf(win.tabs, win.current)
             newcur == IF index = cur THEN rest[Min(index, n - 1)].id
                       ELSE win.current
         IN  [win EXCEPT !.tabs = rest,
                         !.current = newcur,
                         !.view = IF index <= cur THEN newcur ELSE @]
    ELSE win

close_tab(w, index) ==
    /\ windows[w].open
    /\ index \in 1..Len(windows[w].tabs)
    /\ windows' = [windows EXCEPT ![w] = CloseTabAt(@, index)]
    /\ last' = Ran("close_tab", w, windows[w].tabs[index].id,
                   IF Len(windows[w].tabs) > 1 THEN "removed" ELSE "refused")
    /\ UNCHANGED <<blocklist, info, file>>

\* The user selects another tab: currentChanged(index) runs tab_changed
tab_changed(w, index) ==
    /\ windows[w].open
    /\ index \in 1..Len(windows[w].tabs)
    /\ windows[w].tabs[index].id # windows[w].current
    /\ windows' = [windows EXCEPT ![w].current = windows[w].tabs[index].id,
                                  ![w].view = windows[w].tabs[index].id]
    /\ last' = Ran("tab_changed", w, windows[w].tabs[index].id, "selected")
    /\ UNCHANGED <<blocklist, info, file>>

\* setMovable(True): the user drags a tab; the current widget stays current
tab_moved(w, from, to) ==
    /\ windows[w].open
    /\ from \in 1..Len(windows[w].tabs)
    /\ to \in 1..Len(windows[w].tabs)
    /\ from # to
    /\ windows' = [windows EXCEPT ![w].tabs = MoveTo(@, from, to)]
    /\ last' = Ran("tab_moved", w, windows[w].tabs[from].id, "moved")
    /\ UNCHANGED <<blocklist, info, file>>

\* Browser._update_tab_title, run by titleChanged of the page of tab `sender`
SetTitle(win, sender, title) ==
    LET index == IndexOf(win.tabs, win.view)
    IN  IF index >= 1
        THEN [win EXCEPT !.tabs[index].title = title]
        ELSE win

update_tab_title(w, sender, title) ==
    /\ windows[w].open
    /\ sender \in TabIdsOf(windows[w].tabs)
    /\ windows' = [windows EXCEPT ![w] = SetTitle(@, sender, title)]
    /\ last' = Ran("update_tab_title", w, sender, title)
    /\ UNCHANGED <<blocklist, info, file>>

\* Browser._on_url_changed, run by urlChanged of tab `sender`, whose URL is
\* now `url`
\* Variant: no `not in self.history` test
AddHistory_NoDedup(win, url) ==
    IF ~win.incognito THEN [win EXCEPT !.history = Append(@, url)] ELSE win

AddHistory(win, url) ==
    IF ~win.incognito /\ url \notin Range(win.history)
    THEN [win EXCEPT !.history = Append(@, url)]
    ELSE win

on_url_changed(w, sender, url) ==
    /\ windows[w].open
    /\ sender \in TabIdsOf(windows[w].tabs)
    /\ LET i == IndexOf(windows[w].tabs, sender)
           win == [windows[w] EXCEPT !.tabs[i].url = url, !.url_bar = url]
       IN  windows' = [windows EXCEPT ![w] = AddHistory(win, url)]
    /\ last' = Ran("on_url_changed", w, sender,
                   IF windows[w].incognito THEN "incognito"
                   ELSE IF url \in Range(windows[w].history) THEN "known"
                   ELSE "appended")
    /\ UNCHANGED <<blocklist, info, file>>

\* Python's str.strip()
PyWhitespace == {" ", "\t", "\n", "\r"}

RECURSIVE LStrip(_)
LStrip(s) == IF s # <<>> /\ Head(s) \in PyWhitespace THEN LStrip(Tail(s)) ELSE s

RECURSIVE RStrip(_)
RStrip(s) ==
    IF s # <<>> /\ s[Len(s)] \in PyWhitespace
    THEN RStrip(SubSeq(s, 1, Len(s) - 1))
    ELSE s

Strip(s) == RStrip(LStrip(s))

\* Browser.go_to_url, lines 239-241: the URL handed to view.setUrl
NormalizeUrl(text) ==
    LET url == Strip(text)
    IN  IF ~(StartsWith(url, Http) \/ StartsWith(url, Https))
        THEN Https \o url
        ELSE url

\* What the user can type into the URL bar
Pads == SeqsUpTo({" ", "\t"}, MaxPad)
TypedSchemes == {<<>>, Http, Https,
                 <<"f", "t", "p", ":", "/", "/">>,
                 <<"H", "T", "T", "P", ":", "/", "/">>,
                 <<"h", "t", "t", "p", "s", ":", "/">>}
TypedRests == {<<>>, <<"a">>, <<"a", " ", "b">>}
BarTexts == {l \o sch \o rest \o r :
                l \in Pads, sch \in TypedSchemes, rest \in TypedRests, r \in Pads}

edit_url_bar(w, text) ==
    /\ windows[w].open
    /\ windows[w].url_bar # text
    /\ windows' = [windows EXCEPT ![w].url_bar = text]
    /\ last' = Ran("edit_url_bar", w, windows[w].view, "typed")
    /\ UNCHANGED <<blocklist, info, file>>

go_to_url(w) ==
    /\ windows[w].open
    /\ windows' = [windows EXCEPT ![w] = SetUrl(@, NormalizeUrl(windows[w].url_bar))]
    /\ last' = Ran("go_to_url", w, windows[w].view, "navigated")
    /\ UNCHANGED <<blocklist, info, file>>

browser_home(w) ==
    /\ windows[w].open
    /\ windows' = [windows EXCEPT ![w] = SetUrl(@, Home)]
    /\ last' = Ran("browser_home", w, windows[w].view, "navigated")
    /\ UNCHANGED <<blocklist, info, file>>

\* Browser.show_history with the dialog accepted on entry k of self.history
show_history(w, k) ==
    /\ windows[w].open
    /\ k \in 1..Len(windows[w].history)
    /\ windows' = [windows EXCEPT ![w] = SetUrl(@, windows[w].history[k])]
    /\ last' = Ran("show_history", w, windows[w].view, "navigated")
    /\ UNCHANGED <<blocklist, info, file>>

\* Python's `current not in self.bookmarks` and self.bookmarks.append: the
\* outcome of add_bookmark's test on the value json.load returned
\*   "skip"   the condition is false
\*   "append" the condition is true and the value is a list
\*   "raise"  TypeError (`in` on an int) or AttributeError (no append)
BookmarkOutcome(current, b) ==
    IF current = <<>> THEN "skip"
    ELSE IF b.kind = "num" THEN "raise"
    ELSE IF b.kind = "list" THEN
        IF PyStr(current) \in Range(b.items) THEN "skip" ELSE "append"
    ELSE IF b.kind = "str" THEN
        IF Contains(b.chars, current) THEN "skip" ELSE "raise"
    ELSE "raise"

\* Browser.add_bookmark; an exception leaves the slot and the window goes on
\* Variant: json.dump before self.bookmarks.append
AddBookmark_DumpBefore(win, f) ==
    IF BookmarkOutcome(ViewUrl(win), win.bookmarks) = "append"
    THEN LET b == [win.bookmarks EXCEPT !.items = Append(@, PyStr(ViewUrl(win)))]
         IN  [win |-> [win EXCEPT !.bookmarks = b],
              file |-> DumpBookmarks(win.bookmarks)]
    ELSE [win |-> win, file |-> f]

AddBookmark(win, f) ==
    IF BookmarkOutcome(ViewUrl(win), win.bookmarks) = "append"
    THEN LET b == [win.bookmarks EXCEPT !.items = Append(@, PyStr(ViewUrl(win)))]
         IN  [win |-> [win EXCEPT !.bookmarks = b], file |-> DumpBookmarks(b)]
    ELSE [win |-> win, file |-> f]

add_bookmark(w) ==
    /\ windows[w].open
    /\ LET r == AddBookmark(windows[w], file)
       IN  /\ windows' = [windows EXCEPT ![w] = r.win]
           /\ file' = r.file
    /\ last' = Ran("add_bookmark", w, windows[w].view,
                   BookmarkOutcome(ViewUrl(windows[w]), windows[w].bookmarks))
    /\ UNCHANGED <<blocklist, info>>

\* Browser.open_incognito: a second window of the same run
open_incognito(w) ==
    /\ windows[w].open
    /\ \E n \in Windows : ~windows[n].open
    /\ LET n == CHOOSE k \in Windows :
                    ~windows[k].open /\ \A j \in Windows : ~windows[j].open => k <= j
       IN  /\ windows' = [windows EXCEPT ![n] = Browser(TRUE, file)]
           /\ last' = Ran("open_incognito", n, 1, "opened")
    /\ UNCHANGED <<blocklist, info, file>>

\* The application quits and main() runs again
restart ==
    /\ windows' = [w \in Windows |-> IF w = 1 THEN Browser(FALSE, file) ELSE ClosedWindow]
    /\ last' = Ran("main", 1, 1, "started")
    /\ UNCHANGED <<blocklist, info, file>>

----------------------------------------------------------------------------
(* Initial states and specifications                                       *)

\* Contents bookmarks.json can have when main() starts
InitialFiles ==
    {AbsentFile} \cup
    {TextFile(t) : t \in {
        <<>>,
        <<"[">>,
        <<"[", Quote, "a", Quote, ",", "]">>,
        <<BadByte>>,
        <<"{", "}">>,
        <<Quote, "a", Quote>>,
        <<"7">>,
        <<"[", "7", "]">>,
        <<"[", "]">>,
        <<"[", Quote, "a", Quote, "]">>,
        <<"[", Quote, "a", Quote, ",", " ", Quote, "a", Quote, "]">>,
        <<" ", "[", Quote, Eacute, Quote, ",", Quote, Backslash, "u", "0", "0", "E", "9", Quote, " ", "]", "\n">> }}

InitWith(R, inc, f) ==
    /\ blocklist = R
    /\ info = NoInfo
    /\ windows = [w \in Windows |-> IF w = 1 THEN Browser(inc, f) ELSE ClosedWindow]
    /\ file = f
    /\ last = Ran("main", 1, 1, "started")

Init == \E f \in InitialFiles : InitWith(DefaultBlocklist, FALSE, f)

Next ==
    \/ \E url \in RequestUrls : interceptRequest(url)
    \/ \E w \in Windows : new_tab(w)
    \/ \E w \in Windows, index \in TabIds : close_tab(w, index)
    \/ \E w \in Windows, index \in TabIds : tab_changed(w, index)
    \/ \E w \in Windows, from \in TabIds, to \in TabIds : tab_moved(w, from, to)
    \/ \E w \in Windows, sender \in TabIds, title \in PageTitles :
           update_tab_title(w, sender, title)
    \/ \E w \in Windows, sender \in TabIds, url \in PageUrls :
           on_url_changed(w, sender, url)
    \/ \E w \in Windows, text \in BarTexts : edit_url_bar(w, text)
    \/ \E w \in Windows : go_to_url(w)
    \/ \E w \in Windows : browser_home(w)
    \/ \E w \in Windows, k \in 1..Cardinality(PageUrls) : show_history(w, k)
    \/ \E w \in Windows : add_bookmark(w)
    \/ \E w \in Windows : open_incognito(w)
    \/ restart

Spec == Init /\ [][Next]_vars

\* The request interceptor alone, on any blocklist
InitFilter == \E R \in Blocklists : InitWith(R, FALSE, AbsentFile)
NextFilter == \E url \in RequestUrls : interceptRequest(url)
SpecFilter == InitFilter /\ [][NextFilter]_vars

\* The tab bar of main()'s window
InitTabs == InitWith(DefaultBlocklist, FALSE, AbsentFile)
NextTabs ==
    \/ \E w \in Windows : new_tab(w)
    \/ \E w \in Windows, index \in TabIds : close_tab(w, index)
    \/ \E w \in Windows, index \in TabIds : tab_changed(w, index)
    \/ \E w \in Windows, from \in TabIds, to \in TabIds : tab_moved(w, from, to)
    \/ \E w \in Windows, sender \in TabIds, title \in PageTitles :
           update_tab_title(w, sender, title)
SpecTabs == InitTabs /\ [][NextTabs]_vars

\* One window, persistent or incognito, and the pages of its tabs
InitHistory == \E inc \in BOOLEAN : InitWith(DefaultBlocklist, inc, AbsentFile)
NextHistory ==
    \/ \E w \in Windows : new_tab(w)
    \/ \E w \in Windows, index \in TabIds : tab_changed(w, index)
    \/ \E w \in Windows, sender \in TabIds, url \in PageUrls :
           on_url_changed(w, sender, url)
    \/ \E w \in Windows, k \in 1..Cardinality(PageUrls) : show_history(w, k)
SpecHistory == InitHistory /\ [][NextHistory]_vars

\* The URL bar of main()'s window
NextNav ==
    \/ \E w \in Windows, text \in BarTexts : edit_url_bar(w, text)
    \/ \E w \in Windows : go_to_url(w)
SpecNav == InitTabs /\ [][NextNav]_vars

\* The bookmarks of main()'s window over restarts, no other window open
NextSingle ==
    \/ \E w \in Windows, sender \in TabIds, url \in PageUrls :
           on_url_changed(w, sender, url)
    \/ \E w \in Windows : add_bookmark(w)
    \/ restart
SpecSingle == Init /\ [][NextSingle]_vars

\* The bookmarks of all windows of one run
NextBookmarks ==
    \/ \E w \in Windows, sender \in TabIds, url \in PageUrls :
           on_url_changed(w, sender, url)
    \/ \E w \in Windows : add_bookmark(w)
    \/ \E w \in Windows : open_incognito(w)
SpecBookmarks == Init /\ [][NextBookmarks]_vars

----------------------------------------------------------------------------
(* Properties                                                              *)

IsPrefix(s, t) == Len(s) <= Len(t) /\ SubSeq(t, 1, Len(s)) = s

NoDuplicates(s) == \A i, j \in 1..Len(s) : i # j => s[i] # s[j]

\* u = pre \o p \o post for some pre and post
IsSubstringOf(p, u) ==
    \E i \in 0..Len(u), j \in 0..Len(u) :
        /\ j - i = Len(p)
        /\ u = SubSeq(u, 1, i) \o p \o SubSeq(u, j + 1, Len(u))

Reverse(s) == [i \in 1..Len(s) |-> s[Len(s) + 1 - i]]

\* The same patterns in another order: every order of a short list, the
\* reversal and a rotation of any list
Reorderings(R) ==
    {Reverse(R), IF R = <<>> THEN R ELSE Append(Tail(R), Head(R))}
    \cup (IF Len(R) <= 4
          THEN {[i \in 1..Len(R) |-> R[perm[i]]] : perm \in Permutations(1..Len(R))}
          ELSE {})

\* C1: interceptRequest blocks the request iff some pattern of the blocklist
\* is a case-sensitive substring of the request URL (never on an empty
\* blocklist), and the decision is the same for every order of the patterns.
C1_BlockIffSubstring ==
    info.calls = 1 =>
        /\ info.blocked =
               (\E k \in 1..Len(blocklist) : IsSubstringOf(blocklist[k], info.requestUrl))
        /\ \A R \in Reorderings(blocklist) :
               ShouldBlock(info.requestUrl, R) = info.blocked

\* A request blocked by the second of two patterns alone, inside the URL
C1_Witness ==
    /\ info.calls = 1
    /\ info.blocked
    /\ Len(blocklist) = 2
    /\ ~IsSubstringOf(blocklist[1], info.requestUrl)
    /\ ~StartsWith(info.requestUrl, blocklist[2])

TabCountOk == \A w \in Windows : windows[w].open => Len(windows[w].tabs) >= 1

CloseTabEffect ==
    \A w \in Windows, index \in TabIds :
        close_tab(w, index) =>
            LET before == windows[w].tabs
                after == windows'[w].tabs
            IN  IF Len(before) = 1 THEN after = before
                ELSE /\ Len(after) = Len(before) - 1
                     /\ TabIdsOf(after) = TabIdsOf(before) \ {before[index].id}
                     /\ \A i \in 1..Len(before) :
                            /\ i < index => after[i] = before[i]
                            /\ i > index => after[i - 1] = before[i]

\* C2: an open window always has at least one tab; close_tab on the only tab
\* changes no tab, and close_tab with more tabs removes exactly the tab at
\* the given index.
C2_AtLeastOneTab == []TabCountOk /\ [][CloseTabEffect]_vars

\* close_tab was refused on the only tab of the window
C2_Witness ==
    /\ last.op = "close_tab"
    /\ last.result = "refused"
    /\ Len(windows[last.w].tabs) = 1

HistoryOk ==
    \A w \in Windows :
        /\ NoDuplicates(windows[w].history)
        /\ windows[w].incognito => windows[w].history = <<>>

HistoryGrows == \A w \in Windows : IsPrefix(windows[w].history, windows'[w].history)

\* C3: the history of a window never holds a URL twice, only grows at its
\* end (first-visit order), and stays empty in an incognito window.
C3_History == []HistoryOk /\ [][HistoryGrows]_vars

\* A background tab reported a URL the history already held
C3_Witness ==
    /\ last.op = "on_url_changed"
    /\ last.result = "known"
    /\ last.tab # windows[last.w].view
    /\ Len(windows[last.w].history) >= 2

\* The tab bar after titleChanged of tab `sender` as the claim has it
TitleSetOn(win, sender, title) ==
    [win EXCEPT !.tabs = [i \in 1..Len(@) |->
                             IF @[i].id = sender THEN [@[i] EXCEPT !.title = title]
                             ELSE @[i]]]

\* C9: titleChanged of a tab sets the title of that tab, active or not, and
\* leaves the titles of the other tabs alone.
C9_TitleOfEmittingTab ==
    [][\A w \in Windows, sender \in TabIds, title \in PageTitles :
          update_tab_title(w, sender, title) =>
              windows'[w] = TitleSetOn(windows[w], sender, title)]_vars

Letters == {
    "a", "b", "c", "d", "e", "f", "g", "h", "i", "j", "k", "l", "m",
    "n", "o", "p", "q", "r", "s", "t", "u", "v", "w", "x", "y", "z",
    "A", "B", "C", "D", "E", "F", "G", "H", "I", "J", "K", "L", "M",
    "N", "O", "P", "Q", "R", "S", "T", "U", "V", "W", "X", "Y", "Z" }
SchemeChars == Letters \cup Digits \cup {"+", "-", "."}

\* u begins with a URL scheme and "://"
HasSchemePrefix(u) ==
    \E k \in 1..Len(u) :
        /\ u[1] \in Letters
        /\ \A i \in 1..k : u[i] \in SchemeChars
        /\ Len(u) >= k + 3
        /\ SubSeq(u, k + 1, k + 3) = <<":", "/", "/">>

\* C8: go_to_url navigates the active tab to the trimmed URL-bar text as it
\* is when the text has a scheme prefix, and to "https://" + text otherwise.
C8_SchemeKept ==
    [][\A w \in Windows :
          go_to_url(w) =>
              LET text == Strip(windows[w].url_bar)
              IN  ViewUrl(windows'[w]) =
                      IF HasSchemePrefix(text) THEN text ELSE Https \o text]_vars

\* The entries of the store, whatever Python value it is
Entries(b) == Range(b.items)

\* What a restart would load is what the window holds in memory
RoundTrip == LoadBookmarks(file) = windows[1].bookmarks

\* C5: in a window that is alone, what a restart would load is what the
\* window holds in memory, entry by entry and in order, in every state; so
\* the store main() loads equals the store at shutdown.
C5_RoundTrip ==
    /\ []RoundTrip
    /\ [][restart => windows'[1].bookmarks = windows[1].bookmarks]_vars

\* main() has loaded a file this run wrote, with a URL that needs escaping
C5_Witness ==
    /\ last.op = "main"
    /\ windows[1].bookmarks.kind = "list"
    /\ Len(windows[1].bookmarks.items) >= 2
    /\ PyStr(UrlQ) \in Entries(windows[1].bookmarks)
    /\ file.text = JsonDumps(windows[1].bookmarks)

\* C4: add_bookmark changes neither the store nor the file when the active
\* tab's URL is empty or already an entry, and otherwise appends the URL
\* once at the end and writes the file.
C4_AddBookmarkIdempotent ==
    [][\A w \in Windows :
          add_bookmark(w) =>
              LET cur == ViewUrl(windows[w])
                  b == windows[w].bookmarks
                  after == windows'[w].bookmarks
              IN  IF cur = <<>> \/ PyStr(cur) \in Entries(b)
                  THEN after = b /\ file' = file
                  ELSE /\ after.kind = "list"
                       /\ after.items = Append(b.items, PyStr(cur))
                       /\ LoadBookmarks(file') = after]_vars

IsUrlList(b) ==
    b.kind = "list" /\ \A i \in 1..Len(b.items) : b.items[i].kind = "str"

\* C6: whatever bookmarks.json holds at startup, the loaded store is a list
\* of URL strings, the empty one unless the file is a JSON array of strings.
C6_LoadedIsUrlList ==
    last.op = "main" =>
        /\ IsUrlList(windows[1].bookmarks)
        /\ (~file.exists \/ ~JsonLoads(file.text).ok
               \/ ~IsUrlList(JsonLoads(file.text).val))
           => windows[1].bookmarks = PyList(<<>>)

\* C7: no step of an incognito window changes bookmarks.json.
C7_IncognitoWritesNothing ==
    [][windows[last'.w].incognito => file' = file]_vars

\* C10: no write of the bookmark file by one window drops an entry the file
\* held before.
C10_NoBookmarkLost ==
    [][Entries(LoadBookmarks(file)) \subseteq Entries(LoadBookmarks(file'))]_vars

====
